---- MODULE Spec2Model ----
(***************************************************************************)
(* Meeting-room reservation service (src/main.py): the time normalizer,    *)
(* the business-rule validator, the overlap check and the lock-protected   *)
(* in-memory store, with concurrent callers of the three request handlers. *)
(*                                                                         *)
(* Instants are whole seconds counted from 2027-03-27T00:00:00Z, the       *)
(* Saturday before Europe/Helsinki switches to summer time, so that the    *)
(* window of the model holds both UTC offsets of the canonical zone.       *)
(***************************************************************************)
EXTENDS Integers, Sequences, FiniteSets, TLC

VARIABLES
    lock,       \* InMemoryStore._lock: its holder, or NoOwner
    by_room,    \* InMemoryStore._by_room: room -> list of Reservation
    now,        \* the wall clock read by now_utc()
    next_id,    \* how many identities uuid4() has handed out
    pc,         \* each caller's position in its request handler
    room,       \* its normalized room (local variable room)
    start_utc,  \* its parsed start instant
    end_utc,    \* its parsed end instant
    rid,        \* delete's reservation_id
    res         \* the outcome of its last call: a success or an error kind

vars == <<lock, by_room, now, next_id, pc, room, start_utc, end_utc, rid, res>>

----------------------------------------------------------------------------
(* Bounds of the model *)

\* uuid4() is drawn at most this many times
MaxIds == 2

\* the clock advances at most this many times
MaxTicks == 1

\* the threads serving requests
Callers == {"c1", "c2"}

----------------------------------------------------------------------------
(* Time: datetime, timedelta and the zone Europe/Helsinki *)

SecondsPerMinute == 60

SecondsPerHour == 3600

SecondsPerDay == 86400

\* Europe/Helsinki in winter: UTC+02:00
StdOffset == 2 * SecondsPerHour

\* Europe/Helsinki in summer: UTC+03:00
DstOffset == 3 * SecondsPerHour

\* summer time begins 2027-03-28T01:00:00Z
DstStart == SecondsPerDay + SecondsPerHour

BUSINESS_START == 8 * SecondsPerHour

BUSINESS_END == 16 * SecondsPerHour

MIN_DURATION == 30 * SecondsPerMinute

MAX_DURATION == 8 * SecondsPerHour

ROOMS == {"A", "B"}

NoOwner == "free"

NoRoom == "-"

\* the value of a field that holds no instant
NoTime == 0 - 10 * SecondsPerDay

\* the value of a field that holds no reservation id
NoId == <<>>

\* a wall-clock reading: day d (0 = 2027-03-27), h:m:s
At(d, h, m, s) == d * SecondsPerDay + h * SecondsPerHour + m * SecondsPerMinute + s

\* str.upper() on the room ids the callers send
Upper(s) ==
    CASE s = "a" -> "A"
      [] s = "b" -> "B"
      [] s = "x" -> "X"
      [] OTHER -> s

\* ensure_room: the normalized id, which the handler uses when it is in ROOMS
ensure_room(room_id) == Upper(room_id)

\* a zone without summer time
UtcOffsetOfWallWinter(wall) == StdOffset

\* the UTC offset zoneinfo gives a naive wall-clock reading (fold = 0): a reading
\* in the skipped hour keeps the offset in force before the transition
UtcOffsetOfWall(wall) ==
    IF wall < DstStart + DstOffset THEN StdOffset ELSE DstOffset

\* the UTC offset of Europe/Helsinki at an absolute instant
UtcOffsetAt(utc) ==
    IF utc < DstStart THEN StdOffset ELSE DstOffset

\* A timestamp text is a record: form "naive" (no offset), "offset" (an explicit
\* offset off, "Z" being +00:00) or "bad" (not ISO 8601); wall is the reading.
IsMalformed(text) == text.form = "bad"

parse_iso_to_utc(text) ==
    IF text.form = "naive"
    THEN text.wall - UtcOffsetOfWall(text.wall)
    ELSE text.wall - text.off

to_helsinki(dt_utc) == dt_utc + UtcOffsetAt(dt_utc)

\* fields of a local datetime
LocalDate(local) == local \div SecondsPerDay

LocalTime(local) == local % SecondsPerDay

LocalMinute(local) == (local % SecondsPerHour) \div SecondsPerMinute

\* now.replace(second=0, microsecond=0)
FloorToMinute(t) == t - (t % SecondsPerMinute)

\* overlaps with one side only: whether the first interval starts inside the second
overlapsStartInside(a_start, a_end, b_start, b_end) ==
    b_start <= a_start /\ a_start < b_end

\* overlaps on closed intervals
overlapsClosed(a_start, a_end, b_start, b_end) ==
    a_start <= b_end /\ b_start <= a_end

overlaps(a_start, a_end, b_start, b_end) ==
    a_start < b_end /\ b_start < a_end

----------------------------------------------------------------------------
(* The business-rule validator: each check yields "ok" or its error kind *)

validate_time_order(s, e) ==
    IF s >= e THEN "invalid-interval" ELSE "ok"

\* validate_not_in_past against the clock as read, not floored
validate_not_in_pastExact(s, clock) ==
    IF s < clock THEN "past-start" ELSE "ok"

validate_not_in_past(s, clock) ==
    IF s < FloorToMinute(clock) THEN "past-start" ELSE "ok"

validate_30_min_blocks_local(start_local, end_local) ==
    IF LocalMinute(start_local) % 30 # 0 \/ LocalMinute(end_local) % 30 # 0
    THEN "misaligned-block" ELSE "ok"

\* validate_duration_limits without the lower limit
validate_duration_limitsNoMin(s, e) ==
    IF e - s > MAX_DURATION THEN "duration-too-long" ELSE "ok"

validate_duration_limits(s, e) ==
    IF e - s < MIN_DURATION THEN "duration-too-short"
    ELSE IF e - s > MAX_DURATION THEN "duration-too-long"
    ELSE "ok"

validate_single_local_day(start_local, end_local) ==
    IF LocalDate(start_local) # LocalDate(end_local)
    THEN "spans-multiple-days" ELSE "ok"

\* validate_business_hours_local with the end required before closing time
validate_business_hours_localEndBefore(start_local, end_local) ==
    IF ~(BUSINESS_START <= LocalTime(start_local) /\ LocalTime(start_local) <= BUSINESS_END)
    THEN "outside-business-hours-start"
    ELSE IF ~(BUSINESS_START <= LocalTime(end_local) /\ LocalTime(end_local) < BUSINESS_END)
    THEN "outside-business-hours-end"
    ELSE IF LocalTime(start_local) = BUSINESS_END
    THEN "start-at-closing"
    ELSE "ok"

validate_business_hours_local(start_local, end_local) ==
    IF ~(BUSINESS_START <= LocalTime(start_local) /\ LocalTime(start_local) <= BUSINESS_END)
    THEN "outside-business-hours-start"
    ELSE IF ~(BUSINESS_START <= LocalTime(end_local) /\ LocalTime(end_local) <= BUSINESS_END)
    THEN "outside-business-hours-end"
    ELSE IF LocalTime(start_local) = BUSINESS_END
    THEN "start-at-closing"
    ELSE "ok"

\* validate_business_rules with the clock checked before the order
validate_business_rulesPastFirst(s, e, clock) ==
    LET start_local == to_helsinki(s)
        end_local == to_helsinki(e)
    IN  IF validate_not_in_past(s, clock) # "ok" THEN validate_not_in_past(s, clock)
        ELSE IF validate_time_order(s, e) # "ok" THEN validate_time_order(s, e)
        ELSE IF validate_30_min_blocks_local(start_local, end_local) # "ok"
             THEN validate_30_min_blocks_local(start_local, end_local)
        ELSE IF validate_duration_limits(s, e) # "ok" THEN validate_duration_limits(s, e)
        ELSE IF validate_single_local_day(start_local, end_local) # "ok"
             THEN validate_single_local_day(start_local, end_local)
        ELSE validate_business_hours_local(start_local, end_local)

\* the checks in the order validate_business_rules calls them; the first
\* failure is raised and ends the validation
validate_business_rules(s, e, clock) ==
    LET start_local == to_helsinki(s)
        end_local == to_helsinki(e)
    IN  IF validate_time_order(s, e) # "ok" THEN validate_time_order(s, e)
        ELSE IF validate_not_in_past(s, clock) # "ok" THEN validate_not_in_past(s, clock)
        ELSE IF validate_30_min_blocks_local(start_local, end_local) # "ok"
             THEN validate_30_min_blocks_local(start_local, end_local)
        ELSE IF validate_duration_limits(s, e) # "ok" THEN validate_duration_limits(s, e)
        ELSE IF validate_single_local_day(start_local, end_local) # "ok"
             THEN validate_single_local_day(start_local, end_local)
        ELSE validate_business_hours_local(start_local, end_local)

----------------------------------------------------------------------------
(* The store *)

\* Reservation(id, room, start_utc, end_utc)
Reservation(id, r, s, e) == [id |-> id, room |-> r, start_utc |-> s, end_utc |-> e]

\* an identity drawn once and used for every reservation
uuid4Once(n) == <<"uuid", 1>>

\* str(uuid4()): the n-th identity drawn; every draw is a fresh value
uuid4(n) == <<"uuid", n>>

\* a lock that never makes anyone wait
LockIgnored(l) == TRUE

\* Lock: whether acquire() succeeds now
LockFree(l) == l = NoOwner

\* the loop of create stopping one member early
HasConflictSkipLast(existing, s, e) ==
    \E i \in 1..(Len(existing) - 1) :
        overlaps(s, e, existing[i].start_utc, existing[i].end_utc)

\* the loop of create over existing: whether some member overlaps the candidate
HasConflict(existing, s, e) ==
    \E i \in 1..Len(existing) :
        overlaps(s, e, existing[i].start_utc, existing[i].end_utc)

\* a pop that also drops everything after position i
PopTruncate(seq, i) == SubSeq(seq, 1, i - 1)

\* list.pop(0) whatever the position found
PopHead(seq, i) == Tail(seq)

\* list.pop(i)
Pop(seq, i) == SubSeq(seq, 1, i - 1) \o SubSeq(seq, i + 1, Len(seq))

\* the loop of delete: the index of the first reservation with the id, 0 if none
FirstWithId(reservations, reservation_id) ==
    LET hits == {i \in 1..Len(reservations) : reservations[i].id = reservation_id}
    IN  IF hits = {} THEN 0 ELSE CHOOSE i \in hits : \A j \in hits : i <= j

\* sorted(..., key=lambda r: r.start_utc): a stable sort, ascending by start
RECURSIVE InsertByStart(_, _)
InsertByStart(sorted, r) ==
    IF sorted = <<>> THEN <<r>>
    ELSE IF Head(sorted).start_utc <= r.start_utc
         THEN <<Head(sorted)>> \o InsertByStart(Tail(sorted), r)
         ELSE <<r>> \o sorted

RECURSIVE SortByStart(_)
SortByStart(seq) ==
    IF seq = <<>> THEN <<>>
    ELSE InsertByStart(SortByStart(SubSeq(seq, 1, Len(seq) - 1)), seq[Len(seq)])

\* list_room without the sort
list_roomUnsorted(reservations) == reservations

\* InMemoryStore.list_room, inside the lock
list_room(reservations) == SortByStart(reservations)

----------------------------------------------------------------------------
(* What the callers send *)

Naive(wall) == [form |-> "naive", wall |-> wall, off |-> 0]

WithOffset(wall, off) == [form |-> "offset", wall |-> wall, off |-> off]

BadText == [form |-> "bad", wall |-> 0, off |-> 0]

\* CreateReservationRequest(start, end)
Body(s, e) == [start |-> s, end |-> e]

\* datetime.isoformat() of an aware local datetime: its reading and its offset
isoformat(dt_utc) == WithOffset(to_helsinki(dt_utc), UtcOffsetAt(dt_utc))

\* to_response: id and room as stored, start and end rendered in local time
to_response(r) ==
    [id |-> r.id, room |-> r.room,
     start |-> isoformat(r.start_utc), end |-> isoformat(r.end_utc)]

\* the clock when the service starts: 2027-03-27T09:00:40 local time
Clock0 == At(0, 7, 0, 40)

\* how far one advance of the clock goes
TickStep == SecondsPerHour

RoomIds == {"A", "a", "B", "x"}

\* request bodies of the store's callers, local times of 2027-03-27: 09-10,
\* 10-11, 09-11, the reversed 10-09, and one with a malformed start
Bodies ==
    {Body(Naive(At(0, 9, 0, 0)), Naive(At(0, 10, 0, 0))),
     Body(Naive(At(0, 10, 0, 0)), Naive(At(0, 11, 0, 0))),
     Body(Naive(At(0, 9, 0, 0)), Naive(At(0, 11, 0, 0))),
     Body(Naive(At(0, 10, 0, 0)), Naive(At(0, 9, 0, 0))),
     Body(BadText, Naive(At(0, 10, 0, 0)))}

\* a lone caller may draw one identity more
SoloIds == MaxIds + 1

\* the ids a caller may ask to delete
DeleteIds == {uuid4(n) : n \in 1..MaxIds}

SoloDeleteIds == {uuid4(n) : n \in 1..SoloIds}

\* the request bodies of a lone caller: those above and 11-12
SoloBodies ==
    Bodies \cup {Body(Naive(At(0, 11, 0, 0)), Naive(At(0, 12, 0, 0)))}

----------------------------------------------------------------------------
(* The state machine *)

Init ==
    /\ lock = NoOwner
    /\ by_room = [r \in ROOMS |-> <<>>]
    /\ now = Clock0
    /\ next_id = 0
    /\ pc = [t \in Callers |-> "idle"]
    /\ room = [t \in Callers |-> NoRoom]
    /\ start_utc = [t \in Callers |-> NoTime]
    /\ end_utc = [t \in Callers |-> NoTime]
    /\ rid = [t \in Callers |-> NoId]
    /\ res = [t \in Callers |-> "none"]

\* the creates that are under way
InFlight == {t \in Callers : pc[t] \in {"c_validate", "c_lock", "c_append"}}

\* a handler begins: the caller's fields are those of the new call
Begin(t, r, s, e, i, p, outcome) ==
    /\ room' = [room EXCEPT ![t] = r]
    /\ start_utc' = [start_utc EXCEPT ![t] = s]
    /\ end_utc' = [end_utc EXCEPT ![t] = e]
    /\ rid' = [rid EXCEPT ![t] = i]
    /\ pc' = [pc EXCEPT ![t] = p]
    /\ res' = [res EXCEPT ![t] = outcome]

\* create_reservation parsing the timestamps before it looks at the room
create_reservationParseFirst(t, room_id, body, budget) ==
    /\ pc[t] = "idle"
    /\ next_id + Cardinality(InFlight) < budget
    /\ LET r == ensure_room(room_id)
       IN  IF IsMalformed(body.start) \/ IsMalformed(body.end)
           THEN Begin(t, NoRoom, NoTime, NoTime, NoId, "idle", "malformed-timestamp")
           ELSE IF r \notin ROOMS
           THEN Begin(t, NoRoom, NoTime, NoTime, NoId, "idle", "room-not-found")
           ELSE Begin(t, r, parse_iso_to_utc(body.start),
                      parse_iso_to_utc(body.end), NoId, "c_validate", "pending")
    /\ UNCHANGED <<lock, by_room, now, next_id>>

\* create_reservation up to store.create: ensure_room and parse_iso_to_utc twice.
\* A create is admitted while fewer than budget identities are drawn or may be.
create_reservation(t, room_id, body, budget) ==
    /\ pc[t] = "idle"
    /\ next_id + Cardinality(InFlight) < budget
    /\ LET r == ensure_room(room_id)
       IN  IF r \notin ROOMS
           THEN Begin(t, NoRoom, NoTime, NoTime, NoId, "idle", "room-not-found")
           ELSE IF IsMalformed(body.start) \/ IsMalformed(body.end)
           THEN Begin(t, r, NoTime, NoTime, NoId, "idle", "malformed-timestamp")
           ELSE Begin(t, r, parse_iso_to_utc(body.start),
                      parse_iso_to_utc(body.end), NoId, "c_validate", "pending")
    /\ UNCHANGED <<lock, by_room, now, next_id>>

\* create looking for a conflict first and validating afterwards
CreateValidateConflictFirst(t) ==
    /\ pc[t] = "c_validate"
    /\ LET v == validate_business_rules(start_utc[t], end_utc[t], now)
       IN  IF HasConflict(by_room[room[t]], start_utc[t], end_utc[t])
           THEN /\ res' = [res EXCEPT ![t] = "overlap-conflict"]
                /\ pc' = [pc EXCEPT ![t] = "idle"]
           ELSE IF v # "ok"
           THEN /\ res' = [res EXCEPT ![t] = v]
                /\ pc' = [pc EXCEPT ![t] = "idle"]
           ELSE /\ pc' = [pc EXCEPT ![t] = "c_lock"]
                /\ UNCHANGED res
    /\ UNCHANGED <<lock, by_room, now, next_id, room, start_utc, end_utc, rid>>

\* InMemoryStore.create before the lock: validate_business_rules, which reads
\* the clock
CreateValidate(t) ==
    /\ pc[t] = "c_validate"
    /\ LET v == validate_business_rules(start_utc[t], end_utc[t], now)
       IN  IF v # "ok"
           THEN /\ res' = [res EXCEPT ![t] = v]
                /\ pc' = [pc EXCEPT ![t] = "idle"]
           ELSE /\ pc' = [pc EXCEPT ![t] = "c_lock"]
                /\ UNCHANGED res
    /\ UNCHANGED <<lock, by_room, now, next_id, room, start_utc, end_utc, rid>>

\* create with acquire() and release() in place of the with block, the raise
\* on a conflict leaving the lock taken
CreateScanKeepsLock(t) ==
    /\ pc[t] = "c_lock"
    /\ LockFree(lock)
    /\ IF HasConflict(by_room[room[t]], start_utc[t], end_utc[t])
       THEN /\ res' = [res EXCEPT ![t] = "overlap-conflict"]
            /\ pc' = [pc EXCEPT ![t] = "idle"]
            /\ lock' = t
       ELSE /\ pc' = [pc EXCEPT ![t] = "c_append"]
            /\ lock' = t
            /\ UNCHANGED res
    /\ UNCHANGED <<by_room, now, next_id, room, start_utc, end_utc, rid>>

\* create scanning the reservations of every room
CreateScanAllRooms(t) ==
    /\ pc[t] = "c_lock"
    /\ LockFree(lock)
    /\ IF \E r \in ROOMS : HasConflict(by_room[r], start_utc[t], end_utc[t])
       THEN /\ res' = [res EXCEPT ![t] = "overlap-conflict"]
            /\ pc' = [pc EXCEPT ![t] = "idle"]
            /\ lock' = NoOwner
       ELSE /\ pc' = [pc EXCEPT ![t] = "c_append"]
            /\ lock' = t
            /\ UNCHANGED res
    /\ UNCHANGED <<by_room, now, next_id, room, start_utc, end_utc, rid>>

\* with self._lock: of create and the overlap loop: a conflict raises, which
\* leaves the with block; otherwise the caller goes on to the insertion,
\* holding the lock
CreateScan(t) ==
    /\ pc[t] = "c_lock"
    /\ LockFree(lock)
    /\ IF HasConflict(by_room[room[t]], start_utc[t], end_utc[t])
       THEN /\ res' = [res EXCEPT ![t] = "overlap-conflict"]
            /\ pc' = [pc EXCEPT ![t] = "idle"]
            /\ lock' = NoOwner
       ELSE /\ pc' = [pc EXCEPT ![t] = "c_append"]
            /\ lock' = t
            /\ UNCHANGED res
    /\ UNCHANGED <<by_room, now, next_id, room, start_utc, end_utc, rid>>

\* the new Reservation is built, appended and returned; return leaves the with
\* block
CreateAppend(t) ==
    /\ pc[t] = "c_append"
    /\ LET new_res == Reservation(uuid4(next_id + 1), room[t], start_utc[t], end_utc[t])
       IN  by_room' = [by_room EXCEPT ![room[t]] = Append(@, new_res)]
    /\ next_id' = next_id + 1
    /\ res' = [res EXCEPT ![t] = "created"]
    /\ pc' = [pc EXCEPT ![t] = "idle"]
    /\ lock' = NoOwner
    /\ UNCHANGED <<now, room, start_utc, end_utc, rid>>

\* list_reservations up to the lock: ensure_room
list_reservations(t, room_id) ==
    /\ pc[t] = "idle"
    /\ LET r == ensure_room(room_id)
       IN  IF r \notin ROOMS
           THEN Begin(t, NoRoom, NoTime, NoTime, NoId, "idle", "room-not-found")
           ELSE Begin(t, r, NoTime, NoTime, NoId, "l_lock", "pending")
    /\ UNCHANGED <<lock, by_room, now, next_id>>

\* list_room sorting the room's own list (list.sort()) instead of a copy
ListReadSortInPlace(t) ==
    /\ pc[t] = "l_lock"
    /\ LockFree(lock)
    /\ by_room' = [by_room EXCEPT ![room[t]] = SortByStart(@)]
    /\ res' = [res EXCEPT ![t] = "ok"]
    /\ pc' = [pc EXCEPT ![t] = "idle"]
    /\ lock' = NoOwner
    /\ UNCHANGED <<now, next_id, room, start_utc, end_utc, rid>>

\* InMemoryStore.list_room: with self._lock: return sorted(...). The call
\* returns list_room(by_room[room[t]]) as it is in this step.
ListRead(t) ==
    /\ pc[t] = "l_lock"
    /\ LockFree(lock)
    /\ res' = [res EXCEPT ![t] = "ok"]
    /\ pc' = [pc EXCEPT ![t] = "idle"]
    /\ lock' = NoOwner
    /\ UNCHANGED <<by_room, now, next_id, room, start_utc, end_utc, rid>>

\* delete_reservation up to the lock: ensure_room
delete_reservation(t, room_id, reservation_id) ==
    /\ pc[t] = "idle"
    /\ LET r == ensure_room(room_id)
       IN  IF r \notin ROOMS
           THEN Begin(t, NoRoom, NoTime, NoTime, NoId, "idle", "room-not-found")
           ELSE Begin(t, r, NoTime, NoTime, reservation_id, "d_lock", "pending")
    /\ UNCHANGED <<lock, by_room, now, next_id>>

\* a delete that looks for the id in every room's list
DeleteScanAnyRoom(t) ==
    /\ pc[t] = "d_lock"
    /\ LockFree(lock)
    /\ LET holders == {r \in ROOMS : FirstWithId(by_room[r], rid[t]) # 0}
       IN  IF holders # {}
           THEN /\ by_room' = [r \in ROOMS |->
                                 IF r \in holders
                                 THEN Pop(by_room[r], FirstWithId(by_room[r], rid[t]))
                                 ELSE by_room[r]]
                /\ res' = [res EXCEPT ![t] = "deleted"]
           ELSE /\ res' = [res EXCEPT ![t] = "reservation-not-found"]
                /\ UNCHANGED by_room
    /\ pc' = [pc EXCEPT ![t] = "idle"]
    /\ lock' = NoOwner
    /\ UNCHANGED <<now, next_id, room, start_utc, end_utc, rid>>

\* a delete that reports success also when it found nothing to remove
DeleteScanIdempotent(t) ==
    /\ pc[t] = "d_lock"
    /\ LockFree(lock)
    /\ LET i == FirstWithId(by_room[room[t]], rid[t])
       IN  IF i # 0
           THEN by_room' = [by_room EXCEPT ![room[t]] = Pop(@, i)]
           ELSE UNCHANGED by_room
    /\ res' = [res EXCEPT ![t] = "deleted"]
    /\ pc' = [pc EXCEPT ![t] = "idle"]
    /\ lock' = NoOwner
    /\ UNCHANGED <<now, next_id, room, start_utc, end_utc, rid>>

\* InMemoryStore.delete: with self._lock: the loop pops the first match and
\* returns; with no match the with block ends and the 404 is raised
DeleteScan(t) ==
    /\ pc[t] = "d_lock"
    /\ LockFree(lock)
    /\ LET i == FirstWithId(by_room[room[t]], rid[t])
       IN  IF i # 0
           THEN /\ by_room' = [by_room EXCEPT ![room[t]] = Pop(@, i)]
                /\ res' = [res EXCEPT ![t] = "deleted"]
           ELSE /\ res' = [res EXCEPT ![t] = "reservation-not-found"]
                /\ UNCHANGED by_room
    /\ pc' = [pc EXCEPT ![t] = "idle"]
    /\ lock' = NoOwner
    /\ UNCHANGED <<now, next_id, room, start_utc, end_utc, rid>>

\* time passes
Tick ==
    /\ now + TickStep <= Clock0 + MaxTicks * TickStep
    /\ now' = now + TickStep
    /\ UNCHANGED <<lock, by_room, next_id, pc, room, start_utc, end_utc, rid, res>>

Next ==
    \/ \E t \in Callers, room_id \in RoomIds, body \in Bodies :
            create_reservation(t, room_id, body, MaxIds)
    \/ \E t \in Callers : CreateValidate(t)
    \/ \E t \in Callers : CreateScan(t)
    \/ \E t \in Callers : CreateAppend(t)
    \/ \E t \in Callers, room_id \in RoomIds : list_reservations(t, room_id)
    \/ \E t \in Callers : ListRead(t)
    \/ \E t \in Callers, room_id \in RoomIds, i \in DeleteIds :
            delete_reservation(t, room_id, i)
    \/ \E t \in Callers : DeleteScan(t)
    \/ Tick

Spec == Init /\ [][Next]_vars

\* a caller's thread keeps running: the step of its call that is due is taken;
\* the steps that acquire the lock are served fairly among the waiting callers
Fairness ==
    \A t \in Callers :
        /\ WF_vars(CreateValidate(t))
        /\ WF_vars(CreateAppend(t))
        /\ SF_vars(CreateScan(t))
        /\ SF_vars(ListRead(t))
        /\ SF_vars(DeleteScan(t))

\* the callers contending for room A: its two spellings and an unknown room,
\* the bodies 09-10, 09-11 and the malformed one
FairRoomIds == {"A", "a", "x"}

FairBodies ==
    {Body(Naive(At(0, 9, 0, 0)), Naive(At(0, 10, 0, 0))),
     Body(Naive(At(0, 9, 0, 0)), Naive(At(0, 11, 0, 0))),
     Body(BadText, Naive(At(0, 10, 0, 0)))}

NextFair ==
    \/ \E t \in Callers, room_id \in FairRoomIds, body \in FairBodies :
            create_reservation(t, room_id, body, MaxIds)
    \/ \E t \in Callers : CreateValidate(t)
    \/ \E t \in Callers : CreateScan(t)
    \/ \E t \in Callers : CreateAppend(t)
    \/ \E t \in Callers, room_id \in FairRoomIds : list_reservations(t, room_id)
    \/ \E t \in Callers : ListRead(t)
    \/ \E t \in Callers, room_id \in FairRoomIds, i \in DeleteIds :
            delete_reservation(t, room_id, i)
    \/ \E t \in Callers : DeleteScan(t)
    \/ Tick

\* the two callers contending for room A, scheduled in any way
SpecRoomA == Init /\ [][NextFair]_vars

SpecFair == Init /\ [][NextFair]_vars /\ Fairness

\* the two callers sending well-formed requests for the two rooms: the bodies
\* 09-10, 10-11 and 09-11
ValidBodies ==
    {b \in Bodies : /\ ~IsMalformed(b.start) /\ ~IsMalformed(b.end)
                    /\ parse_iso_to_utc(b.start) < parse_iso_to_utc(b.end)}

NextRooms ==
    \/ \E t \in Callers, room_id \in ROOMS, body \in ValidBodies :
            create_reservation(t, room_id, body, MaxIds)
    \/ \E t \in Callers : CreateValidate(t)
    \/ \E t \in Callers : CreateScan(t)
    \/ \E t \in Callers : CreateAppend(t)
    \/ \E t \in Callers, room_id \in ROOMS : list_reservations(t, room_id)
    \/ \E t \in Callers : ListRead(t)
    \/ \E t \in Callers, room_id \in ROOMS, i \in DeleteIds :
            delete_reservation(t, room_id, i)
    \/ \E t \in Callers : DeleteScan(t)
    \/ Tick

SpecRooms == Init /\ [][NextRooms]_vars

\* one caller alone: every call returns before the next begins
NextSolo ==
    \/ \E room_id \in RoomIds, body \in SoloBodies :
            create_reservation("c1", room_id, body, SoloIds)
    \/ CreateValidate("c1")
    \/ CreateScan("c1")
    \/ CreateAppend("c1")
    \/ \E room_id \in RoomIds : list_reservations("c1", room_id)
    \/ ListRead("c1")
    \/ \E room_id \in RoomIds, i \in SoloDeleteIds :
            delete_reservation("c1", room_id, i)
    \/ DeleteScan("c1")
    \/ Tick

SpecSolo == Init /\ [][NextSolo]_vars

----------------------------------------------------------------------------
(* The validator on its own: one create per run, over a wide range of       *)
(* timestamps around the start of summer time                              *)

\* timestamp texts: on 2027-03-27 (UTC+2) 08:00, 09:00, 09:00:30, 09:15, 09:30,
\* 15:30, 16:00, 16:30, 17:30 and 20:00; on 2027-03-28 (UTC+3 from 04:00) 01:00, 03:30
\* (a reading the change of offset skips), 07:30, 08:00 and 16:00;
\* 2027-03-28T05:00:00Z and 2027-03-27T16:00:00+02:00
WideTexts ==
    {Naive(At(0, 8, 0, 0)), Naive(At(0, 9, 0, 0)), Naive(At(0, 9, 0, 30)),
     Naive(At(0, 9, 15, 0)), Naive(At(0, 9, 30, 0)), Naive(At(0, 15, 30, 0)),
     Naive(At(0, 16, 0, 0)),
     Naive(At(0, 16, 30, 0)), Naive(At(0, 17, 30, 0)), Naive(At(0, 20, 0, 0)),
     Naive(At(1, 1, 0, 0)), Naive(At(1, 3, 30, 0)), Naive(At(1, 7, 30, 0)),
     Naive(At(1, 8, 0, 0)),
     Naive(At(1, 16, 0, 0)),
     WithOffset(At(1, 5, 0, 0), 0), WithOffset(At(0, 16, 0, 0), StdOffset)}

\* caller c1 has parsed its request and enters InMemoryStore.create
InitValidate ==
    /\ lock = NoOwner
    /\ by_room = [r \in ROOMS |-> <<>>]
    /\ now = Clock0
    /\ next_id = 0
    /\ \E s \in WideTexts, e \in WideTexts :
        /\ start_utc = [t \in Callers |-> IF t = "c1" THEN parse_iso_to_utc(s) ELSE NoTime]
        /\ end_utc = [t \in Callers |-> IF t = "c1" THEN parse_iso_to_utc(e) ELSE NoTime]
    /\ pc = [t \in Callers |-> IF t = "c1" THEN "c_validate" ELSE "idle"]
    /\ room = [t \in Callers |-> IF t = "c1" THEN "A" ELSE NoRoom]
    /\ rid = [t \in Callers |-> NoId]
    /\ res = [t \in Callers |-> IF t = "c1" THEN "pending" ELSE "none"]

NextValidate ==
    \/ \E t \in Callers : CreateValidate(t)
    \/ \E t \in Callers : CreateScan(t)
    \/ \E t \in Callers : CreateAppend(t)
    \/ Tick

SpecValidate == InitValidate /\ [][NextValidate]_vars

----------------------------------------------------------------------------
(* The race: two creates under way at once, and nothing else                *)

\* the intervals the racing callers ask for: 09-10, 10-11, 09-11 local
RaceBodies == {b \in Bodies : ~IsMalformed(b.start) /\ ~IsMalformed(b.end)
                              /\ parse_iso_to_utc(b.start) < parse_iso_to_utc(b.end)}

\* the store before the race: empty, or holding one reservation made earlier
RaceStores ==
    {[r \in ROOMS |-> <<>>]} \cup
    {[r \in ROOMS |-> IF r = r0
                      THEN <<Reservation(uuid4(1), r0, parse_iso_to_utc(b.start),
                                         parse_iso_to_utc(b.end))>>
                      ELSE <<>>] : r0 \in ROOMS, b \in RaceBodies}

\* both callers have parsed their requests and enter InMemoryStore.create
InitRace ==
    /\ lock = NoOwner
    /\ by_room \in RaceStores
    /\ next_id = IF \A r \in ROOMS : by_room[r] = <<>> THEN 0 ELSE 1
    /\ now = Clock0
    /\ pc = [t \in Callers |-> "c_validate"]
    /\ room \in [Callers -> ROOMS]
    /\ \E b \in [Callers -> RaceBodies] :
        /\ start_utc = [t \in Callers |-> parse_iso_to_utc(b[t].start)]
        /\ end_utc = [t \in Callers |-> parse_iso_to_utc(b[t].end)]
    /\ rid = [t \in Callers |-> NoId]
    /\ res = [t \in Callers |-> "pending"]

NextRace ==
    \/ \E t \in Callers : CreateValidate(t)
    \/ \E t \in Callers : CreateScan(t)
    \/ \E t \in Callers : CreateAppend(t)
    \/ Tick

SpecRace == InitRace /\ [][NextRace]_vars

----------------------------------------------------------------------------
(* Properties *)

\* the steps of a caller
ValidateStep(t) == pc[t] = "c_validate" /\ pc'[t] # "c_validate"

ScanStep(t) == pc[t] = "c_lock" /\ pc'[t] # "c_lock"

AppendStep(t) == pc[t] = "c_append" /\ pc'[t] = "idle"

ListStep(t) == pc[t] = "l_lock" /\ pc'[t] = "idle"

\* the reservations of a room, as a set of positions
Positions(r) == 1..Len(by_room[r])

\* whether the stored reservation x and the interval [s, e) intersect
Intersects(x, s, e) == x.start_utc < e /\ s < x.end_utc

\* whether nothing stored in caller t's room intersects its interval
Free(t) ==
    \A i \in Positions(room[t]) : ~Intersects(by_room[room[t]][i], start_utc[t], end_utc[t])

\* C1: in every reachable state, whatever the interleaving of creates, deletes
\* and lists, no two reservations stored in one room overlap.
C1_NoOverlap ==
    \A r \in ROOMS : \A i, j \in Positions(r) :
        i # j => ~(/\ by_room[r][i].start_utc < by_room[r][j].end_utc
                   /\ by_room[r][j].start_utc < by_room[r][i].end_utc)

\* two callers have each created a reservation in the same room, the second
\* stored one ending where the first begins
C1_Witness ==
    \E r \in ROOMS :
        /\ Len(by_room[r]) = 2
        /\ \A t \in Callers : res[t] = "created" /\ room[t] = r
        /\ by_room[r][2].end_utc = by_room[r][1].start_utc

\* the callers whose create succeeded
Created == {t \in Callers : res[t] = "created"}

\* whether the requests of two callers are for one room and intersect
SameRoomOverlap(t, u) ==
    /\ room[t] = room[u]
    /\ start_utc[t] < end_utc[u]
    /\ start_utc[u] < end_utc[t]

\* in the race, the reservation stored before it began, if any, has the first id
StoredBefore(x) == x.id = uuid4(1) /\ next_id > Cardinality(Created)

\* whether a reservation stored before the race intersects caller t's request
BlockedBefore(t) ==
    \E i \in Positions(room[t]) :
        /\ StoredBefore(by_room[room[t]][i])
        /\ Intersects(by_room[room[t]][i], start_utc[t], end_utc[t])

\* C2: of two concurrent creates for one room whose valid intervals overlap, at
\* most one succeeds; when both passed validation and no reservation stored
\* before conflicts with either, exactly one succeeds and the other ends with
\* overlap-conflict.
C2_OneWinner ==
    \A t, u \in Callers :
        (t # u /\ SameRoomOverlap(t, u)) =>
            /\ ~(res[t] = "created" /\ res[u] = "created")
            /\ ( /\ pc[t] = "idle" /\ pc[u] = "idle"
                 /\ res[t] \in {"created", "overlap-conflict"}
                 /\ res[u] \in {"created", "overlap-conflict"}
                 /\ ~BlockedBefore(t) /\ ~BlockedBefore(u) )
               => \/ res[t] = "created" /\ res[u] = "overlap-conflict"
                  \/ res[u] = "created" /\ res[t] = "overlap-conflict"

\* the race is over: one caller created 09-11, the other asked for another
\* interval overlapping it in the same room and was refused, and the room also
\* holds nothing else
C2_Witness ==
    \E t, u \in Callers :
        /\ t # u /\ SameRoomOverlap(t, u)
        /\ start_utc[t] # start_utc[u]
        /\ pc[t] = "idle" /\ pc[u] = "idle"
        /\ res[t] = "created" /\ res[u] = "overlap-conflict"
        /\ Len(by_room[room[t]]) = 1

\* C3: a validated create goes on to the insertion exactly when nothing stored
\* in its room intersects its interval; otherwise it ends with overlap-conflict
\* and the store is unchanged; the insertion appends its reservation.
C3_ConflictIff ==
    [][\A t \in Callers :
        /\ ScanStep(t) =>
            /\ by_room' = by_room
            /\ IF Free(t)
               THEN pc'[t] = "c_append"
               ELSE pc'[t] = "idle" /\ res'[t] = "overlap-conflict"
        /\ AppendStep(t) =>
            /\ Free(t)
            /\ res'[t] = "created"
            /\ Len(by_room'[room[t]]) = Len(by_room[room[t]]) + 1
            /\ SubSeq(by_room'[room[t]], 1, Len(by_room[room[t]])) = by_room[room[t]]
            /\ by_room'[room[t]][Len(by_room'[room[t]])].start_utc = start_utc[t]
            /\ by_room'[room[t]][Len(by_room'[room[t]])].end_utc = end_utc[t]
            /\ \A r \in ROOMS \ {room[t]} : by_room'[r] = by_room[r]
      ]_vars

\* a create was refused because its interval partly overlaps the one stored
C3_Witness ==
    \E t \in Callers :
        /\ pc[t] = "idle" /\ res[t] = "overlap-conflict"
        /\ Len(by_room[room[t]]) = 1
        /\ by_room[room[t]][1].start_utc > start_utc[t]
        /\ Intersects(by_room[room[t]][1], start_utc[t], end_utc[t])

\* whether every reservation in caller t's room ends by its start or starts at
\* or after its end, one at least exactly at the boundary
OnlyTouches(t) ==
    /\ \A i \in Positions(room[t]) :
          \/ by_room[room[t]][i].end_utc <= start_utc[t]
          \/ end_utc[t] <= by_room[room[t]][i].start_utc
    /\ \E i \in Positions(room[t]) :
          \/ by_room[room[t]][i].end_utc = start_utc[t]
          \/ end_utc[t] = by_room[room[t]][i].start_utc

\* C4: intervals are half-open: a validated create whose interval only touches
\* the reservations of its room, ending where one starts or starting where one
\* ends, is accepted, in whichever order the two were submitted.
C4_Adjacent ==
    [][\A t \in Callers : (ScanStep(t) /\ OnlyTouches(t)) => pc'[t] = "c_append"]_vars

\* 10-11, then 09-10 before it, then 11-12 after it are all stored in one room
C4_Witness ==
    \E r \in ROOMS :
        /\ Len(by_room[r]) = 3
        /\ by_room[r][2].end_utc = by_room[r][1].start_utc
        /\ by_room[r][3].start_utc = by_room[r][1].end_utc

\* the local time of day and the local date of an instant
TimeOfDay(utc) == LocalTime(to_helsinki(utc))

DateOf(utc) == LocalDate(to_helsinki(utc))

MinuteOf(utc) == LocalMinute(to_helsinki(utc))

\* what the spec promises of an accepted pair
Rules(s, e) ==
    /\ s < e
    /\ MIN_DURATION <= e - s /\ e - s <= MAX_DURATION
    /\ MinuteOf(s) % 30 = 0 /\ MinuteOf(e) % 30 = 0
    /\ DateOf(s) = DateOf(e)
    /\ BUSINESS_START <= TimeOfDay(s) /\ TimeOfDay(s) <= BUSINESS_END
    /\ BUSINESS_START <= TimeOfDay(e) /\ TimeOfDay(e) <= BUSINESS_END
    /\ TimeOfDay(s) # BUSINESS_END

\* C5: every pair the validator accepts, and so every reservation that is
\* stored, has start < end, lasts 30 minutes to 8 hours, has both local minutes
\* a multiple of 30, lies on one local date, has both local times of day in
\* [08:00, 16:00], and does not start at 16:00.
C5_Accepted ==
    /\ \A t \in Callers :
          pc[t] \in {"c_lock", "c_append"} => Rules(start_utc[t], end_utc[t])
    /\ \A r \in ROOMS : \A i \in Positions(r) :
          Rules(by_room[r][i].start_utc, by_room[r][i].end_utc)

\* 08:00-16:00 on the day summer time begins is stored: 8 hours, ending at closing
C5_Witness ==
    \E r \in ROOMS : \E i \in Positions(r) :
        /\ by_room[r][i].end_utc - by_room[r][i].start_utc = MAX_DURATION
        /\ TimeOfDay(by_room[r][i].end_utc) = BUSINESS_END
        /\ UtcOffsetAt(by_room[r][i].start_utc) = DstOffset

\* whether the k-th check of the fixed order is violated
Violated(k, s, e, clock) ==
    CASE k = 1 -> s >= e
      [] k = 2 -> s < clock - (clock % SecondsPerMinute)
      [] k = 3 -> MinuteOf(s) % 30 # 0 \/ MinuteOf(e) % 30 # 0
      [] k = 4 -> e - s < MIN_DURATION \/ e - s > MAX_DURATION
      [] k = 5 -> DateOf(s) # DateOf(e)
      [] k = 6 -> \/ TimeOfDay(s) < BUSINESS_START \/ TimeOfDay(s) >= BUSINESS_END
                  \/ TimeOfDay(e) < BUSINESS_START \/ TimeOfDay(e) > BUSINESS_END

\* the error kinds of the k-th check
KindsOf(k, s, e) ==
    CASE k = 1 -> {"invalid-interval"}
      [] k = 2 -> {"past-start"}
      [] k = 3 -> {"misaligned-block"}
      [] k = 4 -> IF e - s < MIN_DURATION THEN {"duration-too-short"}
                                          ELSE {"duration-too-long"}
      [] k = 5 -> {"spans-multiple-days"}
      [] k = 6 -> {"outside-business-hours-start", "outside-business-hours-end",
                   "start-at-closing"}

\* the checks a pair violates
ViolatedChecks(s, e, clock) == {k \in 1..6 : Violated(k, s, e, clock)}

\* C6: the validator reports one error, that of the earliest violated check in
\* the order ordering, not-in-past, block alignment, duration bounds, single
\* local day, business hours; a pair that violates none is accepted.
C6_FirstFailure ==
    [][\A t \in Callers :
        ValidateStep(t) =>
            LET bad == ViolatedChecks(start_utc[t], end_utc[t], now)
            IN  IF bad = {}
                THEN pc'[t] = "c_lock"
                ELSE /\ pc'[t] = "idle"
                     /\ \E k \in bad :
                          /\ \A j \in bad : k <= j
                          /\ res'[t] \in KindsOf(k, start_utc[t], end_utc[t])
      ]_vars

\* a request violating three checks at once (start not before end, start in
\* the past, too short) was rejected with invalid-interval
C6_Witness ==
    \E t \in Callers :
        /\ pc[t] = "idle" /\ res[t] = "invalid-interval"
        /\ {1, 2, 4} \subseteq ViolatedChecks(start_utc[t], end_utc[t], Clock0)

\* whether a pair passes the five checks before the business hours
PassesEarlier(s, e, clock) ==
    \A k \in 1..5 : ~Violated(k, s, e, clock)

\* C7: a create whose start is 16:00 local and that passes ordering, not-in-past,
\* block alignment, duration bounds and single local day is rejected with
\* start-at-closing.
C7_StartAtClosing ==
    [][\A t \in Callers :
        ( /\ ValidateStep(t)
          /\ TimeOfDay(start_utc[t]) = BUSINESS_END
          /\ PassesEarlier(start_utc[t], end_utc[t], now) )
        => res'[t] = "start-at-closing"
      ]_vars

\* the callers other than t
Others(t) == Callers \ {t}

\* C8 as stated: once a create has validated, it holds the lock, and until its
\* reservation is appended or it fails, no other caller moves and the clock
\* does not advance.
C8_SingleSection ==
    [][\A t \in Callers :
        pc[t] \in {"c_lock", "c_append"} =>
            /\ lock = t
            /\ now' = now
            /\ \A u \in Others(t) : pc'[u] = pc[u]
      ]_vars

\* C8, amended: validation runs without the lock; the overlap check and the
\* insertion are one critical section: the lock is taken by the step that scans
\* the room, held until the append, and released by it, and meanwhile no other
\* caller reads or changes the store.
C8_ScanInsertSection ==
    [][\A t \in Callers :
        /\ ValidateStep(t) => lock # t /\ lock' = lock
        /\ (ScanStep(t) /\ pc'[t] = "c_append") => lock = NoOwner /\ lock' = t
        /\ pc[t] = "c_append" =>
            /\ lock = t
            /\ by_room' # by_room => AppendStep(t)
            /\ \A u \in Others(t) :
                  pc[u] \in {"c_lock", "c_append", "l_lock", "d_lock"} => pc'[u] = pc[u]
        /\ AppendStep(t) => lock' = NoOwner
      ]_vars

\* a caller is between its scan and its append, holding the lock, while the
\* other waits to scan; the clock has passed its start since it validated
C8_Witness ==
    \E t \in Callers : \E u \in Others(t) :
        /\ pc[t] = "c_append" /\ lock = t
        /\ pc[u] = "c_lock"
        /\ start_utc[t] < FloorToMinute(now)

\* what the model keeps of a caller
CallerState(t) == <<pc[t], room[t], start_utc[t], end_utc[t], rid[t], res[t]>>

\* the kinds a create fails with
CreateFailures ==
    {"room-not-found", "malformed-timestamp", "invalid-interval", "past-start",
     "misaligned-block", "duration-too-short", "duration-too-long",
     "spans-multiple-days", "outside-business-hours-start",
     "outside-business-hours-end", "start-at-closing", "overlap-conflict"}

\* a step in which caller t's call ends in one of these failures
FailedStep(t) ==
    /\ pc[t] \in {"idle", "c_validate", "c_lock"}
    /\ pc'[t] = "idle"
    /\ res'[t] \in CreateFailures
    /\ CallerState(t)' # CallerState(t)

\* C9: a create that fails (unknown room, malformed timestamp, validation
\* error, overlap conflict) leaves every room's collection as it was, and a
\* list never reads the store while another caller is between its overlap
\* check and its append.
C9_FailureLeavesStore ==
    [][\A t \in Callers :
        /\ FailedStep(t) => by_room' = by_room /\ next_id' = next_id
        /\ ListStep(t) => \A u \in Callers : pc[u] # "c_append"
      ]_vars

\* with a reservation stored, one caller's create was refused for overlap and
\* the other's for a malformed timestamp
C9_Witness ==
    \E t \in Callers : \E u \in Others(t) :
        /\ pc[t] = "idle" /\ res[t] = "overlap-conflict"
        /\ pc[u] = "idle" /\ res[u] = "malformed-timestamp"
        /\ Len(by_room[room[t]]) = 1

\* the elements of a sequence
Range(seq) == {seq[i] : i \in 1..Len(seq)}

\* C10: list returns exactly the reservations of the room's collection, none
\* left out (past ones included), none from another room, in ascending order
\* of start, whatever the order of insertion.
C10_ListSorted ==
    \A t \in Callers :
        pc[t] = "l_lock" =>
            LET stored == by_room[room[t]]
                listed == list_room(stored)
            IN  /\ Len(listed) = Len(stored)
                /\ Range(listed) = Range(stored)
                /\ \A i \in 1..Len(listed) : listed[i].room = room[t]
                /\ \A i, j \in 1..Len(listed) :
                      i < j => listed[i].start_utc <= listed[j].start_utc

\* a list is about to read a room holding two reservations inserted later one
\* first, one of them already begun, while the other room holds one as well
C10_Witness ==
    \E t \in Callers :
        /\ pc[t] = "l_lock" /\ lock = NoOwner
        /\ Len(by_room[room[t]]) = 2
        /\ by_room[room[t]][2].start_utc < by_room[room[t]][1].start_utc
        /\ by_room[room[t]][2].start_utc < FloorToMinute(now)
        /\ \E r \in ROOMS \ {room[t]} : Len(by_room[r]) = 1

\* C11: list is read-only and idempotent: a list step leaves every room's
\* collection as it was, so the sequence a list of the same room would return
\* right after it is the sequence this one returned.
C11_ListReadOnly ==
    [][\A t \in Callers :
        ListStep(t) =>
            /\ by_room' = by_room
            /\ next_id' = next_id
            /\ list_room(by_room'[room[t]]) = list_room(by_room[room[t]])
      ]_vars

\* a list has returned for a room holding two reservations stored later one
\* first, so that what it returned is not the stored order
C11_Witness ==
    \E t \in Callers :
        /\ pc[t] = "idle" /\ res[t] = "ok"
        /\ Len(by_room[room[t]]) = 2
        /\ list_room(by_room[room[t]]) # by_room[room[t]]

\* the step in which a delete leaves the lock
DeleteStep(t) == pc[t] = "d_lock" /\ pc'[t] = "idle"

\* the ids of the reservations in a list
IdsIn(reservations) == {reservations[i].id : i \in 1..Len(reservations)}

\* the ids drawn so far
DrawnIds == {uuid4(n) : n \in 1..next_id}

\* whether new is old without its member at position i, the others in place
RemovedAt(old, new, i) ==
    /\ Len(new) = Len(old) - 1
    /\ \A j \in 1..Len(new) : new[j] = IF j < i THEN old[j] ELSE old[j + 1]

\* C12: a successful delete removes exactly one reservation, the one with the
\* id, from the room: the others stay, in their order, every other room is
\* untouched, and an id that is gone from a room never comes back to it.
C12_DeleteRemovesOne ==
    [][/\ \A t \in Callers :
            (DeleteStep(t) /\ res'[t] = "deleted") =>
                /\ \E i \in Positions(room[t]) :
                      /\ by_room[room[t]][i].id = rid[t]
                      /\ RemovedAt(by_room[room[t]], by_room'[room[t]], i)
                /\ rid[t] \notin IdsIn(by_room'[room[t]])
                /\ \A r \in ROOMS \ {room[t]} : by_room'[r] = by_room[r]
       /\ \A r \in ROOMS : \A i \in DrawnIds :
            i \notin IdsIn(by_room[r]) => i \notin IdsIn(by_room'[r])
      ]_vars

\* the second of three reservations of a room was deleted: the first and the
\* third remain, in that order
C12_Witness ==
    \E t \in Callers :
        /\ pc[t] = "idle" /\ res[t] = "deleted" /\ rid[t] = uuid4(2)
        /\ Len(by_room[room[t]]) = 2
        /\ by_room[room[t]][1].id = uuid4(1)
        /\ by_room[room[t]][2].id = uuid4(3)

\* C13: a delete ends with reservation-not-found whenever no reservation with
\* the id is in the room's collection, also when another room holds one with
\* that id, and then no room's collection changes; otherwise it deletes.
C13_DeleteNotFound ==
    [][\A t \in Callers :
        DeleteStep(t) =>
            IF rid[t] \notin IdsIn(by_room[room[t]])
            THEN res'[t] = "reservation-not-found" /\ by_room' = by_room
            ELSE res'[t] = "deleted"
      ]_vars

\* a delete was refused in one room while the other room holds the id
C13_Witness ==
    \E t \in Callers :
        /\ pc[t] = "idle" /\ res[t] = "reservation-not-found"
        /\ \E r \in ROOMS \ {room[t]} : rid[t] \in IdsIn(by_room[r])

\* the room a path segment names, whatever its letter case, or NoRoom
RoomNamed(room_id) ==
    IF room_id \in {"A", "a"} THEN "A"
    ELSE IF room_id \in {"B", "b"} THEN "B"
    ELSE NoRoom

\* the call ended at once with room-not-found, and nothing of the store moved
RefusedRoom(t) ==
    /\ pc'[t] = "idle" /\ res'[t] = "room-not-found"
    /\ by_room' = by_room /\ lock' = lock /\ next_id' = next_id

\* C14: create, list and delete answer a room id that is not A or B in any
\* letter case with room-not-found, before any timestamp is parsed (a malformed
\* body changes nothing) and without touching the store; ids that differ only
\* in case are served from the same collection.
C14_UnknownRoom ==
    [][\A t \in Callers :
        (pc[t] = "idle" /\ CallerState(t)' # CallerState(t)) =>
            \A room_id \in FairRoomIds :
                /\ \A body \in FairBodies :
                      create_reservation(t, room_id, body, MaxIds) =>
                          IF RoomNamed(room_id) = NoRoom THEN RefusedRoom(t)
                          ELSE /\ room'[t] = RoomNamed(room_id)
                               /\ res'[t] # "room-not-found"
                /\ list_reservations(t, room_id) =>
                      IF RoomNamed(room_id) = NoRoom THEN RefusedRoom(t)
                      ELSE room'[t] = RoomNamed(room_id) /\ pc'[t] = "l_lock"
                /\ \A i \in DeleteIds :
                      delete_reservation(t, room_id, i) =>
                          IF RoomNamed(room_id) = NoRoom THEN RefusedRoom(t)
                          ELSE room'[t] = RoomNamed(room_id) /\ pc'[t] = "d_lock"
      ]_vars

\* with a reservation stored in room A, one caller was refused for its room
\* while the other's delete of that reservation is under way
C14_Witness ==
    \E t \in Callers : \E u \in Others(t) :
        /\ pc[t] = "idle" /\ res[t] = "room-not-found" /\ room[t] = NoRoom
        /\ pc[u] = "d_lock" /\ room[u] = "A"
        /\ rid[u] \in IdsIn(by_room["A"])

\* the callers inside a critical section between two steps
Inside == {t \in Callers : pc[t] = "c_append"}

\* C15: the lock is released on every exit path, so that it is held exactly
\* while its holder is inside a critical section, and with the lock served
\* fairly every started create, list or delete call eventually ends with a
\* result or an error.
C15_NoBlocking ==
    /\ [](IF Inside = {} THEN lock = NoOwner ELSE Inside = {lock})
    /\ \A t \in Callers : (pc[t] # "idle") ~> (pc[t] = "idle" /\ res[t] # "pending")

\* a delete waits for the lock while a create holds it, about to append
C15_Witness ==
    \E t \in Callers : \E u \in Others(t) :
        /\ pc[t] = "d_lock"
        /\ pc[u] = "c_append" /\ lock = u

\* the start of the minute an instant lies in
MinuteStart(clock) ==
    CHOOSE m \in (clock - SecondsPerMinute + 1)..clock : m % SecondsPerMinute = 0

\* C16: the not-in-past check compares the start with the current instant
\* floored to the whole minute: of the requests with start before end, exactly
\* those starting before the beginning of the current minute end with
\* past-start; a start at that beginning passes although the clock is later
\* within the minute.
C16_FlooredClock ==
    [][\A t \in Callers :
        (ValidateStep(t) /\ start_utc[t] < end_utc[t]) =>
            (res'[t] = "past-start" <=> start_utc[t] < MinuteStart(now))
      ]_vars

\* at 09:00:40 a reservation starting at 09:00:00 was created
C16_Witness ==
    \E t \in Callers :
        /\ res[t] = "created"
        /\ now % SecondsPerMinute # 0
        /\ start_utc[t] = MinuteStart(now)
        /\ start_utc[t] < now

\* the zoneless and the offset-carrying texts among the inputs
NaiveTexts == {n \in WideTexts : n.form = "naive"}

OffsetTexts == {o \in WideTexts : o.form = "offset"}

\* whether the text shown for the stored instant x has the reading of every
\* zoneless text x can have been parsed from, and whether every
\* offset-carrying text for that reading in Helsinki is parsed to x as well
ShownAsSent(x, shown) ==
    /\ \A n \in NaiveTexts :
          parse_iso_to_utc(n) = x => shown.wall = n.wall
    /\ \A n \in NaiveTexts : \A o \in OffsetTexts :
          (parse_iso_to_utc(n) = x /\ to_helsinki(o.wall - o.off) = n.wall)
              => parse_iso_to_utc(o) = x

\* C17: a zoneless timestamp is read as Helsinki wall-clock time, stored as an
\* instant and rendered back in the local zone: the start and end returned for
\* a successful create show the date and time of day that were sent, and a
\* text with an explicit offset for the same instant gives the same stored
\* instant, hence the same validation and the same conflicts.
C17_RoundTrip ==
    \A r \in ROOMS : \A i \in Positions(r) :
        /\ ShownAsSent(by_room[r][i].start_utc, to_response(by_room[r][i]).start)
        /\ ShownAsSent(by_room[r][i].end_utc, to_response(by_room[r][i]).end)

\* a reservation starting 2027-03-28T08:00, in summer time, is stored; the
\* zoneless text and 2027-03-28T05:00:00Z both give its start
C17_Witness ==
    \E r \in ROOMS : \E i \in Positions(r) :
        /\ UtcOffsetAt(by_room[r][i].start_utc) = DstOffset
        /\ \E n \in NaiveTexts : parse_iso_to_utc(n) = by_room[r][i].start_utc
        /\ \E o \in OffsetTexts : parse_iso_to_utc(o) = by_room[r][i].start_utc

\* whether [s, e) runs from local time a to local time b of one day
RunsLocal(s, e, a, b) ==
    /\ DateOf(s) = DateOf(e)
    /\ TimeOfDay(s) = a
    /\ TimeOfDay(e) = b

\* C18: the inclusive bounds are reachable together: a reservation not in the
\* past from 08:00 to 16:00 local of one day, exactly 8 hours and ending at
\* closing time, passes the validator, and so does 15:30-16:00, exactly 30
\* minutes.
C18_BoundsAccepted ==
    [][\A t \in Callers :
        ( /\ ValidateStep(t)
          /\ start_utc[t] >= MinuteStart(now)
          /\ \/ RunsLocal(start_utc[t], end_utc[t], At(0, 8, 0, 0), At(0, 16, 0, 0))
             \/ RunsLocal(start_utc[t], end_utc[t], At(0, 15, 30, 0), At(0, 16, 0, 0)) )
        => pc'[t] = "c_lock"
      ]_vars

\* 15:30-16:00 is stored: the shortest duration, ending at closing time
C18_Witness ==
    \E r \in ROOMS : \E i \in Positions(r) :
        /\ by_room[r][i].end_utc - by_room[r][i].start_utc = 30 * SecondsPerMinute
        /\ TimeOfDay(by_room[r][i].end_utc) = At(0, 16, 0, 0)

\* the kinds the validator fails with
ValidationFailures ==
    CreateFailures \ {"room-not-found", "malformed-timestamp", "overlap-conflict"}

\* C19: validation is decided before the conflict check: a create whose
\* interval violates a business rule and overlaps a reservation of its room
\* ends with the validation error, never with overlap-conflict; only a create
\* that passed validation, whose interval satisfies the rules, ends with
\* overlap-conflict.
C19_ValidationFirst ==
    [][\A t \in Callers :
        /\ ( /\ ValidateStep(t)
             /\ ViolatedChecks(start_utc[t], end_utc[t], now) # {}
             /\ ~Free(t) )
           => pc'[t] = "idle" /\ res'[t] \in ValidationFailures
        /\ (res'[t] = "overlap-conflict" /\ res[t] # "overlap-conflict")
           => /\ pc[t] = "c_lock"
              /\ ~Free(t)
              /\ Rules(start_utc[t], end_utc[t])
      ]_vars

\* a create for an hour already begun, overlapping the reservation stored in
\* its room, was refused with past-start
C19_Witness ==
    \E t \in Callers :
        /\ pc[t] = "idle" /\ res[t] = "past-start"
        /\ room[t] \in ROOMS
        /\ ~Free(t)

\* whether a room other than caller t's holds a reservation that intersects
\* its interval
TakenElsewhere(t) ==
    \E r \in ROOMS \ {room[t]} : \E i \in Positions(r) :
        Intersects(by_room[r][i], start_utc[t], end_utc[t])

\* C20: the conflict check is per room: a validated create whose interval is
\* free in its room goes on to the insertion although another room holds an
\* intersecting reservation, a refusal for overlap always has a conflicting
\* reservation in the caller's own room, and the insertion changes the
\* collection of that room only.
C20_PerRoom ==
    [][\A t \in Callers :
        /\ (ScanStep(t) /\ Free(t) /\ TakenElsewhere(t)) => pc'[t] = "c_append"
        /\ (ScanStep(t) /\ res'[t] = "overlap-conflict") => ~Free(t)
        /\ AppendStep(t) =>
            /\ \A r \in ROOMS \ {room[t]} : by_room'[r] = by_room[r]
            /\ Len(by_room'[room[t]]) = Len(by_room[room[t]]) + 1
      ]_vars

\* the same interval is booked in room A and in room B
C20_Witness ==
    /\ \A r \in ROOMS : Len(by_room[r]) = 1
    /\ by_room["A"][1].start_utc = by_room["B"][1].start_utc
    /\ by_room["A"][1].end_utc = by_room["B"][1].end_utc
    /\ by_room["A"][1].id # by_room["B"][1].id

\* whether an instant is exactly at xx:00 or xx:30 of local time
OnHalfHour(utc) == TimeOfDay(utc) % (30 * SecondsPerMinute) = 0

\* C21: every start and end the block-alignment check accepts is exactly at
\* xx:00 or xx:30 local time, and a request with start before end, not in the
\* past, whose start or end is not exactly there ends with misaligned-block.
C21_HalfHourBlocks ==
    [][\A t \in Callers :
        ( /\ ValidateStep(t)
          /\ start_utc[t] < end_utc[t]
          /\ start_utc[t] >= MinuteStart(now) )
        => IF OnHalfHour(start_utc[t]) /\ OnHalfHour(end_utc[t])
           THEN res'[t] # "misaligned-block"
           ELSE res'[t] = "misaligned-block"
      ]_vars

\* the places of the store: a room and a position in its list
Places == {<<r, i>> : r \in ROOMS, i \in 1..(MaxIds + 1)}

Stored == {p \in Places : p[2] <= Len(by_room[p[1]])}

\* the ids of all the reservations stored
AllIds == UNION {IdsIn(by_room[r]) : r \in ROOMS}

\* C22: every successful create assigns an identity that no stored reservation
\* of any room has and that no earlier create was given; so the reservations
\* stored in all the rooms have pairwise distinct ids, and a delete by id
\* matches at most one reservation.
C22_FreshIds ==
    [][/\ \A p, q \in Stored :
            p # q => by_room[p[1]][p[2]].id # by_room[q[1]][q[2]].id
       /\ AllIds \subseteq DrawnIds
       /\ \A t \in Callers :
            AppendStep(t) =>
                LET new_res == by_room'[room[t]][Len(by_room'[room[t]])]
                IN  /\ new_res.id \notin AllIds
                    /\ new_res.id \notin DrawnIds
                    /\ Cardinality({p \in Places :
                                      /\ p[2] <= Len(by_room'[p[1]])
                                      /\ by_room'[p[1]][p[2]].id = new_res.id}) = 1
      ]_vars

\* three identities were drawn, the first reservation was deleted, and room A
\* and room B hold the two others
C22_Witness ==
    /\ next_id = 3
    /\ uuid4(1) \notin AllIds
    /\ \A r \in ROOMS : Len(by_room[r]) = 1
    /\ by_room["A"][1].id # by_room["B"][1].id

\* whether a listed sequence is a chain: every member starts after the one
\* before it started, and not before that one ended
IsChain(listed) ==
    \A i \in 1..(Len(listed) - 1) :
        /\ listed[i].start_utc < listed[i + 1].start_utc
        /\ listed[i].end_utc <= listed[i + 1].start_utc

\* C23: in every state reached through creates and deletes, the sequence list
\* returns for a room is a chain of disjoint intervals: strictly increasing
\* starts, each end at or before the next start.
C23_ListedChain ==
    \A r \in ROOMS : IsChain(list_room(by_room[r]))

\* a list is about to read a room whose three reservations touch one another
\* and were stored in another order than they start
C23_Witness ==
    \E t \in Callers :
        /\ pc[t] = "l_lock" /\ lock = NoOwner
        /\ Len(by_room[room[t]]) = 3
        /\ list_room(by_room[room[t]]) # by_room[room[t]]
        /\ list_room(by_room[room[t]])[1].end_utc = list_room(by_room[room[t]])[2].start_utc

\* whether callers t and u ask to delete the same id in the same room
SameDelete(t, u) == room[t] = room[u] /\ rid[t] = rid[u] /\ rid[t] # NoId

\* C24: of two concurrent deletes of one stored reservation, same room and same
\* id, the first to take the lock succeeds and removes exactly that
\* reservation, the second ends with reservation-not-found and removes
\* nothing; never have both succeeded.
C24_DeleteRace ==
    [][\A t \in Callers : \A u \in Others(t) :
        /\ ( /\ DeleteStep(t)
             /\ pc[u] = "d_lock" /\ SameDelete(t, u)
             /\ rid[t] \in IdsIn(by_room[room[t]]) )
           => /\ res'[t] = "deleted"
              /\ Len(by_room'[room[t]]) = Len(by_room[room[t]]) - 1
              /\ IdsIn(by_room'[room[t]]) = IdsIn(by_room[room[t]]) \ {rid[t]}
        /\ ( /\ DeleteStep(t)
             /\ pc[u] = "idle" /\ res[u] = "deleted" /\ SameDelete(t, u) )
           => res'[t] = "reservation-not-found" /\ by_room' = by_room
        /\ ~( /\ SameDelete(t, u)
              /\ pc[t] = "idle" /\ res[t] = "deleted"
              /\ pc[u] = "idle" /\ res[u] = "deleted" )
      ]_vars

\* both deletes of the only reservation of the room are over: one succeeded,
\* the other found nothing, and the room is empty
C24_Witness ==
    \E t \in Callers : \E u \in Others(t) :
        /\ SameDelete(t, u)
        /\ pc[t] = "idle" /\ res[t] = "deleted"
        /\ pc[u] = "idle" /\ res[u] = "reservation-not-found"
        /\ by_room[room[t]] = <<>>
        /\ next_id = 1

\* the last member of a non-empty list
Last(seq) == seq[Len(seq)]

\* the list without its last member
Front(seq) == SubSeq(seq, 1, Len(seq) - 1)

\* C25: create followed by delete is a round trip: deleting the identity a
\* create has just appended, with no other change of the room in between,
\* gives back every room's collection as it was before the create, members and
\* order, so that the same interval is free again.
C25_CreateDeleteRoundTrip ==
    [][\A t \in Callers :
        /\ AppendStep(t) =>
            LET after == by_room'[room[t]]
                undone == Pop(after, FirstWithId(after, Last(after).id))
            IN  /\ undone = by_room[room[t]]
                /\ ~HasConflict(undone, start_utc[t], end_utc[t])
        /\ ( /\ DeleteStep(t)
             /\ by_room[room[t]] # <<>>
             /\ Last(by_room[room[t]]).id = rid[t]
             /\ rid[t] = uuid4(next_id) )
           => /\ res'[t] = "deleted"
              /\ by_room'[room[t]] = Front(by_room[room[t]])
              /\ \A r \in ROOMS \ {room[t]} : by_room'[r] = by_room[r]
      ]_vars

\* the second reservation created was deleted right away: its room holds the
\* first one alone again
C25_Witness ==
    \E t \in Callers :
        /\ pc[t] = "idle" /\ res[t] = "deleted"
        /\ next_id = 2 /\ rid[t] = uuid4(2)
        /\ Len(by_room[room[t]]) = 1
        /\ by_room[room[t]][1].id = uuid4(1)

====
